---- MODULE Spec2Model ----
(***************************************************************************)
(* SquareWithWell-Transient.py as a state machine.                         *)
(*                                                                         *)
(* The script is one top-to-bottom sequence of statements.  Its state is   *)
(* the module namespace (ns: variable name -> value), the model object's   *)
(* files on disk, the external solver's invocations, the figures drawn,    *)
(* and the position in the script (pc).  Each action is one statement or   *)
(* one block of consecutive assignments of the script.                     *)
(*                                                                         *)
(* Numbers: every length of the script is a float whose value is an        *)
(* integer number of metres (1000., 100., 1000./100 = 10.0, ...), exactly  *)
(* representable in binary floating point, so lengths are modelled as      *)
(* integers and the float division a / b as a \div b.  sy and ss are kept  *)
(* as <<numerator, denominator>>.                                          *)
(***************************************************************************)
EXTENDS Integers, Sequences, FiniteSets, TLC

VARIABLES
    pc,          \* the next statement of the script, "halt" after the last, "raised" after an uncaught exception
    ns,          \* the script's namespace: [name |-> value] of the variables assigned so far
    done,        \* the statements executed so far, in order
    disk,        \* the set of files in the working directory
    solverRuns,  \* how many times the external solver process was started
    hds,         \* the content of the binary head file the solver wrote: <<[totim, level], ...>>
    figures,     \* the plot calls made so far
    error        \* the message of the uncaught exception, "" if none

vars == <<pc, ns, done, disk, solverRuns, hds, figures, error>>

(***************************************************************************)
(* Bounds of the environment: what the external solver may have written.   *)
(***************************************************************************)
MaxTimes == 3     \* at most this many saved time steps in the head file
MaxLevel == 2     \* saved heads are 100 - d metres for d in 0..MaxLevel
MaxRuns  == 3     \* cap of the solver-invocation counter

(***************************************************************************)
(* Helpers                                                                 *)
(***************************************************************************)

\* name = value, ... : bind the names of new in the namespace n
Assign(n, new) == new @@ n

Defined(name) == name \in DOMAIN ns

\* Python 3 round() of the quotient num / den (num >= 0, den > 0):
\* to the nearest integer, ties to the even one
PyRound(num, den) ==
    LET q == num \div den
        r == num % den
    IN  IF 2 * r < den THEN q
        ELSE IF 2 * r > den THEN q + 1
        ELSE IF q % 2 = 0 THEN q ELSE q + 1

\* np.linspace(start, stop, num=num): num evenly spaced samples, both ends included
Linspace(start, stop, num) ==
    [i \in 0 .. num - 1 |->
        IF num = 1 THEN start
        ELSE IF i = num - 1 THEN stop
        ELSE start + i * ((stop - start) \div (num - 1))]

\* np.ones((l, r, c)) scaled by v: an array of shape (l, r, c) filled with v
Full(l, r, c, v) ==
    [k \in 0 .. l - 1 |-> [i \in 0 .. r - 1 |-> [j \in 0 .. c - 1 |-> v]]]

\* faulty variant of SetColumns: indexes the row axis, a[:, cols, :] = v
SetColumns_rows(a, cols, v) ==
    [k \in DOMAIN a |-> [i \in DOMAIN a[k] |-> [j \in DOMAIN a[k][i] |->
        IF i \in cols THEN v ELSE a[k][i][j]]]]

\* a[:, :, cols] = v
SetColumns(a, cols, v) ==
    [k \in DOMAIN a |-> [i \in DOMAIN a[k] |-> [j \in DOMAIN a[k][i] |->
        IF j \in cols THEN v ELSE a[k][i][j]]]]

\* a Python list: the elements of s indexed from 0
PyList(s) == [i \in 0 .. Len(s) - 1 |-> s[i + 1]]

\* a[1:]
Tail1(a) == [i \in 0 .. Cardinality(DOMAIN a) - 2 |-> a[i + 1]]

\* the statement st has run and raised an uncaught exception with message msg
Raise(st, msg) == pc = st /\ pc' = "raised" /\ done' = Append(done, st) /\ error' = msg

\* the statement st has run; the script goes on at nxt
Step(st, nxt) == pc = st /\ pc' = nxt /\ done' = Append(done, st) /\ error' = error

\* mf with the package name added to its package list
AddPackage(mf, name) == [mf EXCEPT !.packages = Append(@, name)]

(***************************************************************************)
(* Init: the interpreter is about to run line 1 with an empty namespace.   *)
(***************************************************************************)
Init ==
    /\ pc = "DefNames"
    /\ ns = <<>>
    /\ done = <<>>
    /\ disk = {}
    /\ solverRuns = 0
    /\ hds = <<>>
    /\ figures = <<>>
    /\ error = ""

(***************************************************************************)
(* Lines 17-20: executable path and model name                             *)
(***************************************************************************)
DefNames ==
    /\ Step("DefNames", "NewModflow")
    /\ ns' = Assign(ns, [path2mf   |-> "C:/Users/Sam/Dropbox/Work/Models/MODFLOW/MF2005.1_12/bin/mf2005.exe",
                         modelname |-> "SquareWithWell-Transient"])
    /\ UNCHANGED <<disk, solverRuns, hds, figures>>

(***************************************************************************)
(* Line 21: the model object                                               *)
(***************************************************************************)
NewModflow ==
    /\ Step("NewModflow", "DefGrid")
    /\ ns' = Assign(ns, [mf |-> [name |-> ns.modelname, exe_name |-> ns.path2mf, packages |-> <<>>]])
    /\ UNCHANGED <<disk, solverRuns, hds, figures>>

(***************************************************************************)
(* Lines 24-33: domain and grid                                            *)
(***************************************************************************)
\* faulty variant of DefGrid: delr and delc divide by the other axis' cell count
DefGrid_swapped ==
    /\ Step("DefGrid", "DefCoords")
    /\ LET Lx == 1000  Ly == 1000  ztop == 100  zbot == 0
           nlay == 1  nrow == 50  ncol == 100
       IN  ns' = Assign(ns, [Lx |-> Lx, Ly |-> Ly, ztop |-> ztop, zbot |-> zbot,
                             nlay |-> nlay, nrow |-> nrow, ncol |-> ncol,
                             delr |-> Lx \div nrow,
                             delc |-> Ly \div ncol,
                             delv |-> (ztop - zbot) \div nlay])
    /\ UNCHANGED <<disk, solverRuns, hds, figures>>

DefGrid ==
    /\ Step("DefGrid", "DefCoords")
    /\ LET Lx == 1000  Ly == 1000  ztop == 100  zbot == 0
           nlay == 1  nrow == 50  ncol == 100
       IN  ns' = Assign(ns, [Lx |-> Lx, Ly |-> Ly, ztop |-> ztop, zbot |-> zbot,
                             nlay |-> nlay, nrow |-> nrow, ncol |-> ncol,
                             delr |-> Lx \div ncol,
                             delc |-> Ly \div nrow,
                             delv |-> (ztop - zbot) \div nlay])
    /\ UNCHANGED <<disk, solverRuns, hds, figures>>

(***************************************************************************)
(* Lines 34-41: cell-centre coordinates, layer bottoms, aquifer properties *)
(***************************************************************************)
DefCoords ==
    /\ Step("DefCoords", "DefIbound")
    /\ ns' = Assign(ns, [x_coord |-> Linspace(ns.delr \div 2, ns.Lx - ns.delr \div 2, ns.ncol),
                         y_coord |-> Linspace(ns.Ly - ns.delc \div 2, ns.delc \div 2, ns.nrow),
                         botm    |-> Linspace(ns.ztop, ns.zbot, ns.nlay + 1),
                         hk |-> 1, vka |-> 1, sy |-> <<1, 10>>, ss |-> <<1, 10000>>, laytyp |-> 1])
    /\ UNCHANGED <<disk, solverRuns, hds, figures>>

(***************************************************************************)
(* Lines 45-46: boundary conditions                                        *)
(***************************************************************************)
DefIbound ==
    /\ Step("DefIbound", "DefStrt")
    /\ ns' = Assign(ns, [ibound |-> SetColumns(Full(ns.nlay, ns.nrow, ns.ncol, 1), {0, ns.ncol - 1}, -1)])
    /\ UNCHANGED <<disk, solverRuns, hds, figures>>

(***************************************************************************)
(* Line 49: initial heads                                                  *)
(***************************************************************************)
DefStrt ==
    /\ Step("DefStrt", "DefTime")
    /\ ns' = Assign(ns, [strt |-> Full(ns.nlay, ns.nrow, ns.ncol, 100)])
    /\ UNCHANGED <<disk, solverRuns, hds, figures>>

(***************************************************************************)
(* Lines 52-55: stress periods                                             *)
(***************************************************************************)
DefTime ==
    /\ Step("DefTime", "NewDis")
    /\ ns' = Assign(ns, [nper |-> 2, perlen |-> PyList(<<100, 100>>), nstp |-> PyList(<<100, 100>>),
                         steady |-> PyList(<<FALSE, FALSE>>)])
    /\ UNCHANGED <<disk, solverRuns, hds, figures>>

(***************************************************************************)
(* Lines 58-63: the DIS, BAS, LPF and PCG packages, each registered in mf  *)
(***************************************************************************)
NewDis ==
    /\ Step("NewDis", "NewBas")
    /\ ns' = Assign(ns, [dis |-> [nlay |-> ns.nlay, nrow |-> ns.nrow, ncol |-> ns.ncol,
                                  delr |-> ns.delr, delc |-> ns.delc,
                                  top |-> ns.ztop, botm |-> Tail1(ns.botm),
                                  nper |-> ns.nper, perlen |-> ns.perlen,
                                  nstp |-> ns.nstp, steady |-> ns.steady],
                         mf  |-> AddPackage(ns.mf, "DIS")])
    /\ UNCHANGED <<disk, solverRuns, hds, figures>>

NewBas ==
    /\ Step("NewBas", "NewLpf")
    /\ ns' = Assign(ns, [bas |-> [ibound |-> ns.ibound, strt |-> ns.strt],
                         mf  |-> AddPackage(ns.mf, "BAS6")])
    /\ UNCHANGED <<disk, solverRuns, hds, figures>>

NewLpf ==
    /\ Step("NewLpf", "NewPcg")
    /\ ns' = Assign(ns, [lpf |-> [hk |-> ns.hk, vka |-> ns.vka, sy |-> ns.sy, ss |-> ns.ss,
                                  laytyp |-> ns.laytyp],
                         mf  |-> AddPackage(ns.mf, "LPF")])
    /\ UNCHANGED <<disk, solverRuns, hds, figures>>

NewPcg ==
    /\ Step("NewPcg", "DefWell")
    /\ ns' = Assign(ns, [pcg |-> [defaults |-> TRUE],
                         mf  |-> AddPackage(ns.mf, "PCG")])
    /\ UNCHANGED <<disk, solverRuns, hds, figures>>

(***************************************************************************)
(* Lines 66-71: the pumping well.  A well entry is                         *)
(* [layer, row, column, rate]; stress_period_data maps the 0-based stress  *)
(* period to its list of entries.                                          *)
(***************************************************************************)
WellEntry(k, r, c, q) == [lay |-> k, row |-> r, col |-> c, rate |-> q]

\* faulty variant of DefWell: the second stress period keeps the pumping rate
DefWell_keepsPumping ==
    /\ Step("DefWell", "NewWel")
    /\ LET r_well  == PyRound(ns.nrow, 2)
           c_well  == PyRound(ns.ncol, 2)
           wel_sp1 == PyList(<<WellEntry(0, r_well, c_well, -1000)>>)
           wel_sp2 == PyList(<<WellEntry(0, r_well, c_well, -1000)>>)
       IN  ns' = Assign(ns, [r_well |-> r_well, c_well |-> c_well,
                             wel_sp1 |-> wel_sp1, wel_sp2 |-> wel_sp2,
                             stress_period_data |-> (0 :> wel_sp1 @@ 1 :> wel_sp2)])
    /\ UNCHANGED <<disk, solverRuns, hds, figures>>

\* faulty variant of DefWell: the well is put in the last column
DefWell_lastColumn ==
    /\ Step("DefWell", "NewWel")
    /\ LET r_well  == PyRound(ns.nrow, 2)
           c_well  == ns.ncol - 1
           wel_sp1 == PyList(<<WellEntry(0, r_well, c_well, -1000)>>)
           wel_sp2 == PyList(<<WellEntry(0, r_well, c_well, 0)>>)
       IN  ns' = Assign(ns, [r_well |-> r_well, c_well |-> c_well,
                             wel_sp1 |-> wel_sp1, wel_sp2 |-> wel_sp2,
                             stress_period_data |-> (0 :> wel_sp1 @@ 1 :> wel_sp2)])
    /\ UNCHANGED <<disk, solverRuns, hds, figures>>

DefWell ==
    /\ Step("DefWell", "NewWel")
    /\ LET r_well  == PyRound(ns.nrow, 2)
           c_well  == PyRound(ns.ncol, 2)
           wel_sp1 == PyList(<<WellEntry(0, r_well, c_well, -1000)>>)
           wel_sp2 == PyList(<<WellEntry(0, r_well, c_well, 0)>>)
       IN  ns' = Assign(ns, [r_well |-> r_well, c_well |-> c_well,
                             wel_sp1 |-> wel_sp1, wel_sp2 |-> wel_sp2,
                             stress_period_data |-> (0 :> wel_sp1 @@ 1 :> wel_sp2)])
    /\ UNCHANGED <<disk, solverRuns, hds, figures>>

(***************************************************************************)
(* Lines 72-75: the WEL and OC packages                                    *)
(***************************************************************************)
NewWel ==
    /\ Step("NewWel", "NewOc")
    /\ ns' = Assign(ns, [wel |-> [stress_period_data |-> ns.stress_period_data],
                         mf  |-> AddPackage(ns.mf, "WEL")])
    /\ UNCHANGED <<disk, solverRuns, hds, figures>>

\* faulty variant of NewOc: the script goes on at the solver run, write_input left out
NewOc_skipWrite ==
    /\ Step("NewOc", "RunModel")
    /\ ns' = Assign(ns, [oc |-> [save_every |-> TRUE, compact |-> TRUE],
                         mf |-> AddPackage(ns.mf, "OC")])
    /\ UNCHANGED <<disk, solverRuns, hds, figures>>

NewOc ==
    /\ Step("NewOc", "WriteInput")
    /\ ns' = Assign(ns, [oc |-> [save_every |-> TRUE, compact |-> TRUE],
                         mf |-> AddPackage(ns.mf, "OC")])
    /\ UNCHANGED <<disk, solverRuns, hds, figures>>

(***************************************************************************)
(* Line 78: the name file and one input file per registered package.  A    *)
(* file is <<model name, extension>>.                                      *)
(***************************************************************************)
InputFiles(mf) ==
    {<<mf.name, "nam">>} \cup {<<mf.name, mf.packages[i]>> : i \in DOMAIN mf.packages}

WriteInput ==
    /\ Step("WriteInput", "RunModel")
    /\ disk' = disk \cup InputFiles(ns.mf)
    /\ UNCHANGED <<ns, solverRuns, hds, figures>>

(***************************************************************************)
(* Line 81: the external solver runs to completion and reports success or  *)
(* not.  Its output is not determined by the script: a successful run      *)
(* leaves a head file of 1..MaxTimes saved time steps (one per day), a     *)
(* failed run any head file, possibly an empty one.  A saved time step is  *)
(* [totim, level]: the heads at time totim are 100 - level metres.         *)
(***************************************************************************)
HeadFiles ==
    UNION {{[i \in 1 .. n |-> [totim |-> i, level |-> f[i]]] : f \in [1 .. n -> 0 .. MaxLevel]}
              : n \in 1 .. MaxTimes}

RunModel ==
    /\ solverRuns < MaxRuns
    /\ Step("RunModel", "CheckSuccess")
    /\ solverRuns' = solverRuns + 1
    /\ \E ok \in BOOLEAN :
         /\ ns' = Assign(ns, [success |-> ok, mfoutput |-> IF ok THEN "normal termination" ELSE "failed"])
         /\ hds' \in IF ok THEN HeadFiles ELSE HeadFiles \cup {<<>>}
         /\ disk' = disk \cup {<<ns.mf.name, "list">>} \cup (IF hds' # <<>> THEN {<<ns.mf.name, "hds">>} ELSE {})
    /\ UNCHANGED figures

(***************************************************************************)
(* Lines 82-83: raise unless the run succeeded                             *)
(***************************************************************************)
\* faulty variant of CheckSuccess: the result of the run is not looked at
CheckSuccess_ignore ==
    /\ Step("CheckSuccess", "OpenHeadFile")
    /\ UNCHANGED <<ns, disk, solverRuns, hds, figures>>

\* faulty variant of CheckSuccess: a failed run is started again
CheckSuccess_retry ==
    /\ pc = "CheckSuccess"
    /\ IF ~ ns.success
       THEN Step("CheckSuccess", "RunModel")
       ELSE Step("CheckSuccess", "OpenHeadFile")
    /\ UNCHANGED <<ns, disk, solverRuns, hds, figures>>

CheckSuccess ==
    /\ pc = "CheckSuccess"
    /\ IF ~ ns.success
       THEN Raise("CheckSuccess", "MODFLOW did not terminate normally.")
       ELSE Step("CheckSuccess", "OpenHeadFile")
    /\ UNCHANGED <<ns, disk, solverRuns, hds, figures>>

(***************************************************************************)
(* Line 90: open the binary head file                                      *)
(***************************************************************************)
OpenHeadFile ==
    /\ pc = "OpenHeadFile"
    /\ IF <<ns.modelname, "hds">> \in disk
       THEN /\ Step("OpenHeadFile", "GetData")
            /\ ns' = Assign(ns, [headobj |-> [file |-> <<ns.modelname, "hds">>, records |-> hds]])
       ELSE /\ Raise("OpenHeadFile", "FileNotFoundError")
            /\ ns' = ns
    /\ UNCHANGED <<disk, solverRuns, hds, figures>>

(***************************************************************************)
(* Lines 93-98: the heads of the first saved time, the plot extent and the *)
(* well point                                                              *)
(***************************************************************************)

\* headobj.get_times()
GetTimes(headobj) == PyList([i \in DOMAIN headobj.records |-> headobj.records[i].totim])

\* headobj.get_data(totim=t): the (nlay, nrow, ncol) array saved for time t
GetDataAt(headobj, t, nlay, nrow, ncol) ==
    LET rec == CHOOSE r \in {headobj.records[i] : i \in DOMAIN headobj.records} : r.totim = t
    IN  Full(nlay, nrow, ncol, 100 - rec.level)

GetData ==
    /\ pc = "GetData"
    /\ IF DOMAIN GetTimes(ns.headobj) = {}
       THEN /\ Raise("GetData", "IndexError")
            /\ ns' = ns
       ELSE /\ Step("GetData", "PlotHead")
            /\ LET time   == GetTimes(ns.headobj)[0]
                   head   == GetDataAt(ns.headobj, time, ns.dis.nlay, ns.dis.nrow, ns.dis.ncol)
                   extent == <<ns.x_coord[0], ns.x_coord[ns.ncol - 1],
                               ns.y_coord[0], ns.y_coord[ns.nrow - 1]>>
                   wpt    == <<((2 * PyRound(ns.ncol, 2) + 1) * ns.delr) \div 2,
                               ((2 * PyRound(ns.nrow, 2) + 1) * ns.delc) \div 2>>
               IN  ns' = Assign(ns, [time |-> time, head |-> head, extent |-> extent, wpt |-> wpt])
    /\ UNCHANGED <<disk, solverRuns, hds, figures>>

(***************************************************************************)
(* Lines 101-108: map of the heads of layer 0 with the well point          *)
(***************************************************************************)
PlotHead ==
    /\ Step("PlotHead", "PlotSection")
    /\ figures' = figures \o <<[call |-> "imshow", data |-> ns.head[0], extent |-> ns.extent],
                               [call |-> "colorbar"],
                               [call |-> "plot", x |-> ns.wpt[1], y |-> ns.wpt[2]]>>
    /\ UNCHANGED <<ns, disk, solverRuns, hds>>

(***************************************************************************)
(* Lines 111-113: left-right cross-section of head through the well row    *)
(***************************************************************************)
PlotSection ==
    /\ pc = "PlotSection"
    /\ IF ns.r_well \in DOMAIN ns.head[0]
       THEN /\ Step("PlotSection", "GetTs")
            /\ figures' = figures \o <<[call |-> "plot", x |-> ns.x_coord, y |-> ns.head[0][ns.r_well]],
                                       [call |-> "show"]>>
       ELSE /\ Raise("PlotSection", "IndexError")
            /\ figures' = figures
    /\ UNCHANGED <<ns, disk, solverRuns, hds>>

(***************************************************************************)
(* Lines 116-117: head time series at the well cell                        *)
(***************************************************************************)

\* whether idx = (k, i, j) is a cell of the grid of the head file
ValidCell(idx, nlay, nrow, ncol) ==
    idx[1] \in 0 .. nlay - 1 /\ idx[2] \in 0 .. nrow - 1 /\ idx[3] \in 0 .. ncol - 1

\* headobj.get_ts(idx): one row (totim, head at idx) per saved time
GetTsAt(headobj, idx) ==
    PyList([i \in DOMAIN headobj.records |->
               <<headobj.records[i].totim, 100 - headobj.records[i].level>>])

GetTs ==
    /\ pc = "GetTs"
    /\ LET idx == <<0, ns.r_well, ns.c_well>>
       IN  IF ValidCell(idx, ns.dis.nlay, ns.dis.nrow, ns.dis.ncol)
           THEN /\ Step("GetTs", "PlotTs")
                /\ ns' = Assign(ns, [idx |-> idx, ts |-> GetTsAt(ns.headobj, idx)])
           ELSE /\ Raise("GetTs", "Invalid cell index")
                /\ ns' = Assign(ns, [idx |-> idx])
    /\ UNCHANGED <<disk, solverRuns, hds, figures>>

(***************************************************************************)
(* Lines 118-124: plot of the time series, titled with the 1-based cell    *)
(***************************************************************************)
PlotTs ==
    /\ Step("PlotTs", "halt")
    /\ LET ttl == <<"Head at cell", ns.idx[1] + 1, ns.idx[2] + 1, ns.idx[3] + 1>>
       IN  /\ ns' = Assign(ns, [ttl |-> ttl])
           /\ figures' = figures \o <<[call |-> "title", text |-> ttl],
                                      [call |-> "plot",
                                       x |-> [i \in DOMAIN ns.ts |-> ns.ts[i][1]],
                                       y |-> [i \in DOMAIN ns.ts |-> ns.ts[i][2]]],
                                      [call |-> "show"]>>
    /\ UNCHANGED <<disk, solverRuns, hds>>

(***************************************************************************)
(* The script                                                              *)
(***************************************************************************)
Next ==
    \/ DefNames \/ NewModflow \/ DefGrid \/ DefCoords \/ DefIbound \/ DefStrt \/ DefTime
    \/ NewDis \/ NewBas \/ NewLpf \/ NewPcg \/ DefWell \/ NewWel \/ NewOc
    \/ WriteInput \/ RunModel \/ CheckSuccess
    \/ OpenHeadFile \/ GetData \/ PlotHead \/ PlotSection \/ GetTs \/ PlotTs

Spec == Init /\ [][Next]_vars

(***************************************************************************)
(* Properties                                                              *)
(***************************************************************************)

\* the statement st has been executed
Ran(st) == \E i \in DOMAIN done : done[i] = st

\* the solver has returned and reported failure
Failed == Defined("success") /\ ~ ns.success

ReadSteps == {"OpenHeadFile", "GetData", "GetTs"}
PlotSteps == {"PlotHead", "PlotSection", "PlotTs"}

\* C1: after a solver run that reports non-success the script raises and
\* halts: the head file is never opened, no head data is read and nothing is
\* plotted, and the only exception is the one of the success check.
C1_FailedRunHalts ==
    Failed =>
        /\ pc \in {"CheckSuccess", "raised"}
        /\ pc = "raised" => error = "MODFLOW did not terminate normally."
        /\ ~ Defined("headobj") /\ ~ Defined("time") /\ ~ Defined("head") /\ ~ Defined("ts")
        /\ figures = <<>>
        /\ \A st \in ReadSteps \cup PlotSteps : ~ Ran(st)

\* C1 witness: the run failed, left a head file on disk, and the script has
\* raised without opening it.
C1_Witness ==
    /\ Failed /\ pc = "raised" /\ Ran("CheckSuccess")
    /\ <<ns.modelname, "hds">> \in disk
    /\ figures = <<>>

\* The phases of the spec's linear sequence, in its order.
Phase(st) ==
    CASE st \in {"DefNames", "DefGrid", "DefCoords", "DefIbound", "DefStrt", "DefTime", "DefWell"} -> 1
      [] st \in {"NewModflow", "NewDis", "NewBas", "NewLpf", "NewPcg", "NewWel", "NewOc"} -> 2
      [] st = "WriteInput" -> 3
      [] st \in {"RunModel", "CheckSuccess"} -> 4
      [] st \in ReadSteps -> 5
      [] st \in PlotSteps -> 6

\* C2 as stated: the phases (parameter definition, construction, writing,
\* solver run, reading, plotting) follow each other, no statement of a phase
\* running before every statement of the earlier phases has run.
C2_PhasesInOrder ==
    \A i, j \in DOMAIN done : i < j => Phase(done[i]) <= Phase(done[j])

\* The statements in the order the script lists them.
ScriptOrder ==
    <<"DefNames", "NewModflow", "DefGrid", "DefCoords", "DefIbound", "DefStrt", "DefTime",
      "NewDis", "NewBas", "NewLpf", "NewPcg", "DefWell", "NewWel", "NewOc",
      "WriteInput", "RunModel", "CheckSuccess",
      "OpenHeadFile", "GetData", "PlotHead", "PlotSection", "GetTs", "PlotTs">>

AllPackages == <<"DIS", "BAS6", "LPF", "PCG", "WEL", "OC">>

\* C2 amended: the statements run in the script's one fixed order (which
\* constructs the model object before the grid parameters, defines the well
\* parameters after DIS..PCG and reads the time series after the first
\* plots); the solver runs only after write_input has written the files of
\* all six packages, results are read only after the solver returned
\* success, and nothing is plotted before the heads have been read.
C2_FixedOrder ==
    /\ Len(done) <= Len(ScriptOrder)
    /\ \A i \in DOMAIN done : done[i] = ScriptOrder[i]
    /\ Ran("RunModel") =>
          /\ Ran("WriteInput")
          /\ ns.mf.packages = AllPackages
          /\ InputFiles(ns.mf) \subseteq disk
          /\ \A i \in DOMAIN AllPackages : <<ns.modelname, AllPackages[i]>> \in disk
    /\ (\E st \in ReadSteps : Ran(st)) => Ran("CheckSuccess") /\ ns.success
    /\ (\E st \in PlotSteps : Ran(st)) => Ran("GetData") /\ Defined("head")
    /\ figures # <<>> => Defined("head")

\* C2 witness: a complete run, plots drawn from a head file of a successful run.
C2_Witness ==
    /\ pc = "halt" /\ done = ScriptOrder
    /\ ns.success /\ Len(figures) = 8

\* C3: the solver is started at most once, and after a failed run the
\* script only raises: it is never back at a statement before the check.
C3_NoRetry ==
    /\ solverRuns <= 1
    /\ Cardinality({i \in DOMAIN done : done[i] = "RunModel"}) <= 1
    /\ Failed => solverRuns = 1 /\ pc \in {"CheckSuccess", "raised"}
    /\ pc = "raised" => solverRuns = 1

\* C3 witness: the script has raised after its single failed run.
C3_Witness ==
    /\ pc = "raised" /\ Failed /\ solverRuns = 1
    /\ error = "MODFLOW did not terminate normally."

\* C4: ibound is -1 exactly on the first and the last column and 1 on every
\* other cell (no inactive cell), in every layer and row, and that array is
\* the one given to the BAS package.
C4_IboundEdges ==
    /\ Defined("ibound") =>
          /\ DOMAIN ns.ibound = 0 .. ns.nlay - 1
          /\ \A k \in DOMAIN ns.ibound :
                /\ DOMAIN ns.ibound[k] = 0 .. ns.nrow - 1
                /\ \A i \in DOMAIN ns.ibound[k] :
                      /\ DOMAIN ns.ibound[k][i] = 0 .. ns.ncol - 1
                      /\ \A j \in DOMAIN ns.ibound[k][i] :
                            /\ ns.ibound[k][i][j] = -1 <=> j \in {0, ns.ncol - 1}
                            /\ j \notin {0, ns.ncol - 1} => ns.ibound[k][i][j] = 1
    /\ Defined("bas") => ns.bas.ibound = ns.ibound

\* C4 witness: the array has been built and handed to BAS; corner cells are
\* constant-head, their neighbours in the top and bottom rows are active.
C4_Witness ==
    /\ Defined("bas")
    /\ ns.bas.ibound[0][0][0] = -1 /\ ns.bas.ibound[0][49][99] = -1
    /\ ns.bas.ibound[0][0][1] = 1 /\ ns.bas.ibound[0][49][98] = 1

\* the entries of stress period sp (0-based) as given to the WEL package
WelEntries(sp) == ns.stress_period_data[sp]

\* C5: the rate is nonzero in stress period one (key 0) and zero in stress
\* period two (key 1); each period has one entry, both for cell
\* (0, r_well, c_well).
C5_PumpThenStop ==
    Defined("stress_period_data") =>
        /\ DOMAIN ns.stress_period_data = {0, 1}
        /\ \A sp \in {0, 1} :
              /\ DOMAIN WelEntries(sp) = {0}
              /\ WelEntries(sp)[0].lay = 0
              /\ WelEntries(sp)[0].row = ns.r_well
              /\ WelEntries(sp)[0].col = ns.c_well
        /\ WelEntries(0)[0].rate # 0
        /\ WelEntries(1)[0].rate = 0
        /\ Defined("wel") => ns.wel.stress_period_data = ns.stress_period_data

\* C5 witness: the WEL package holds the two periods' entries.
C5_Witness ==
    /\ Defined("wel")
    /\ ns.wel.stress_period_data[0][0].rate = -1000
    /\ ns.wel.stress_period_data[1][0].rate = 0

Abs(x) == IF x < 0 THEN -x ELSE x

\* C6: the well withdraws 5000 m3/day during a first stress period of 100
\* days and nothing during a second one of 100 days; there are exactly two
\* stress periods.
C6_Pumps5000 ==
    Defined("stress_period_data") =>
        /\ ns.nper = 2
        /\ ns.perlen[0] = 100 /\ ns.perlen[1] = 100
        /\ Abs(WelEntries(0)[0].rate) = 5000
        /\ WelEntries(1)[0].rate = 0

\* C7: delr = Lx / ncol and delc = Ly / nrow, the cells tile the domain
\* exactly, and DIS is given these cell sizes.
C7_CellsTileDomain ==
    /\ Defined("delr") =>
          /\ ns.delr = ns.Lx \div ns.ncol /\ ns.delc = ns.Ly \div ns.nrow
          /\ ns.ncol * ns.delr = ns.Lx /\ ns.nrow * ns.delc = ns.Ly
          /\ ns.Lx = 1000 /\ ns.Ly = 1000
    /\ Defined("dis") => ns.dis.delr = ns.delr /\ ns.dis.delc = ns.delc

\* C7 witness: DIS has been constructed with 10 m columns and 20 m rows.
C7_Witness ==
    /\ Defined("dis")
    /\ ns.dis.delr = 10 /\ ns.dis.delc = 20
    /\ ns.dis.ncol = 100 /\ ns.dis.nrow = 50

\* C8: the centre of the well cell, (x_coord[c_well], y_coord[r_well]), is
\* the centre of the domain (Lx/2, Ly/2) = (500, 500).
C8_WellAtCentre ==
    Defined("r_well") =>
        /\ ns.x_coord[ns.c_well] = ns.Lx \div 2 /\ ns.x_coord[ns.c_well] = 500
        /\ ns.y_coord[ns.r_well] = ns.Ly \div 2 /\ ns.y_coord[ns.r_well] = 500

\* C9: the well cell is a cell of the grid and an active one (ibound 1, not
\* a constant-head cell), so the cross-section row and the time-series
\* index are valid: neither raises an index error.
C9_WellCellValid ==
    /\ Defined("r_well") =>
          /\ 0 < ns.nlay
          /\ 0 <= ns.r_well /\ ns.r_well < ns.nrow
          /\ 0 <= ns.c_well /\ ns.c_well < ns.ncol
          /\ ns.ibound[0][ns.r_well][ns.c_well] = 1
    /\ Defined("head") =>
          /\ 0 \in DOMAIN ns.head
          /\ ns.r_well \in DOMAIN ns.head[0]
          /\ ns.c_well \in DOMAIN ns.head[0][ns.r_well]
    /\ Defined("idx") =>
          /\ ns.idx = <<0, ns.r_well, ns.c_well>>
          /\ ValidCell(ns.idx, ns.dis.nlay, ns.dis.nrow, ns.dis.ncol)
    /\ error \notin {"IndexError", "Invalid cell index"}

\* C9 witness: the cross-section and the time series of cell (0, 25, 50)
\* have both been produced.
C9_Witness ==
    /\ pc = "halt" /\ Defined("ts")
    /\ ns.idx = <<0, 25, 50>>
    /\ ns.ibound[0][25][50] = 1
    /\ figures[4].call = "plot" /\ figures[4].y = ns.head[0][25]
    /\ figures[7].call = "plot" /\ figures[7].x = GetTimes(ns.headobj)

====
